---- MODULE Spec2Model ----
(***************************************************************************)
(* The receive path of the tunnel (src/src/receive.c): packet_receive, the *)
(* handshake admission queue and its worker, and the decryption-completion *)
(* callback receive_data_packet.                                           *)
(*                                                                         *)
(* Every C function is an operator that yields the sequence of calls and   *)
(* writes it performs, in program order ("events"); the actions apply the  *)
(* events to the device and peer state.  Results of collaborators that are *)
(* not part of receive.c (MAC verdict, handshake consumers, routing        *)
(* lookup, netif_rx, allocation success) are inputs of the actions.        *)
(***************************************************************************)
EXTENDS Integers, Sequences, FiniteSets, TLC

\* ------------------------------------------------------------------ bounds
\* Number of datagrams handed to packet_receive in one behaviour of Spec.
NumBufs == 2
\* Number of handshake datagrams in one behaviour of SpecQueue.
NumQueueBufs == 4

\* ------------------------------------------------------- program constants
\* messages.h (4096 and 8 there); scaled down, the code only compares with them.
MAX_QUEUED_HANDSHAKES == 2
MAX_BURST_HANDSHAKES == 2

\* sizeof(struct iphdr), sizeof(struct ipv6hdr), sizeof(struct udphdr),
\* sizeof(struct message_header)
SIZEOF_IPHDR == 20
SIZEOF_IPV6HDR == 40
SIZEOF_UDPHDR == 8
SIZEOF_MESSAGE_HEADER == 4
\* wire sizes of the three handshake messages and the minimum data message
SIZEOF_INITIATION == 148
SIZEOF_RESPONSE == 92
SIZEOF_COOKIE == 64
MESSAGE_MINIMUM_LENGTH == 32

NULL == "NULL"
Bufs == 1..NumBufs
QueueBufs == 1..NumQueueBufs
AllBufs == Bufs \cup QueueBufs
Peers == {"p1", "p2"}
Addrs == {"a1", "a2"}
PeerOrNull == Peers \cup {NULL}
AddrOrNull == Addrs \cup {NULL}

MESSAGE_INVALID == "MESSAGE_INVALID"
MESSAGE_HANDSHAKE_INITIATION == "MESSAGE_HANDSHAKE_INITIATION"
MESSAGE_HANDSHAKE_RESPONSE == "MESSAGE_HANDSHAKE_RESPONSE"
MESSAGE_HANDSHAKE_COOKIE == "MESSAGE_HANDSHAKE_COOKIE"
MESSAGE_DATA == "MESSAGE_DATA"

INVALID_MAC == "INVALID_MAC"
VALID_MAC_BUT_NO_COOKIE == "VALID_MAC_BUT_NO_COOKIE"
VALID_MAC_WITH_COOKIE == "VALID_MAC_WITH_COOKIE"
MacStates == {INVALID_MAC, VALID_MAC_BUT_NO_COOKIE, VALID_MAC_WITH_COOKIE}

NET_RX_SUCCESS == "NET_RX_SUCCESS"
NET_RX_DROP == "NET_RX_DROP"

\* ------------------------------------------------------------------ events
\* One call or write of the code: f the callee, p a peer (or a result), a an
\* address or counter name, n a length.
Ev(f, p, a, n) == [f |-> f, p |-> p, a |-> a, n |-> n]

\* how many events of ev are calls of f
CountEv(ev, f) == Cardinality({i \in 1..Len(ev) : ev[i].f = f})

\* how many events of ev are calls of f on p
CountEvP(ev, f, p) == Cardinality({i \in 1..Len(ev) : ev[i].f = f /\ ev[i].p = p})

\* total added to counter a (of peer p, NULL for a device counter)
SumAdd(ev, p, a) ==
    LET sum[k \in 0..Len(ev)] ==
            IF k = 0 THEN 0
            ELSE sum[k - 1] + (IF ev[k].f = "add" /\ ev[k].p = p /\ ev[k].a = a
                               THEN ev[k].n ELSE 0)
    IN sum[Len(ev)]

\* the address of peer p after the socket_set_peer_addr calls of ev, old before
LastAddr(ev, p, old) ==
    LET sets == {i \in 1..Len(ev) : ev[i].f = "socket_set_peer_addr" /\ ev[i].p = p}
    IN IF sets = {} THEN old
       ELSE ev[CHOOSE i \in sets : \A k \in sets : k <= i].a

\* -------------------------------------------------------------------- skbs
\* An outer datagram: total length, IP version, offset of the UDP header, the
\* UDP length field, how many bytes pskb_may_pull can make contiguous, the
\* type word of the message header and the source address.
Frame(len, version, udp_off, udp_len, pull, type, src) ==
    [len |-> len, version |-> version, udp_off |-> udp_off, udp_len |-> udp_len,
     pull |-> pull, type |-> type, src |-> src]

NoSkb == Frame(0, 0, 0, 0, 0, 0, NULL)

Frames ==
    { Frame(176, 4, 20, 156, 176, 1, "a1"),   \* initiation, linear
      Frame(176, 4, 20, 156, 32, 1, "a2"),    \* initiation, paged
      Frame(140, 6, 40, 100, 140, 2, "a2"),   \* response over IPv6
      Frame(92, 4, 20, 72, 92, 3, "a1"),      \* cookie reply
      Frame(60, 4, 20, 40, 60, 4, "a1"),      \* data
      Frame(60, 4, 20, 40, 60, 5, "a1"),      \* unknown type
      Frame(136, 4, 20, 116, 136, 1, "a1"),   \* type 1 with a wrong length
      Frame(10, 4, 20, 40, 10, 1, "a1"),      \* shorter than an IPv4 header
      Frame(60, 5, 20, 40, 60, 1, "a1"),      \* neither IPv4 nor IPv6
      Frame(30, 6, 40, 40, 30, 1, "a1"),      \* IPv6 but shorter than its header
      Frame(24, 4, 20, 40, 24, 1, "a1"),      \* no room for the UDP header
      Frame(60, 4, 20, 7, 60, 1, "a1"),       \* UDP length 7
      Frame(60, 4, 20, 200, 60, 1, "a1"),     \* UDP length beyond the datagram
      Frame(60, 4, 20, 40, 20, 1, "a1") }     \* header cannot be pulled

\* A decrypted inner packet: length, IP version nibble, pullable bytes.
Inner(len, version, pull) == Frame(len, version, 0, 0, pull, 0, NULL)

Inners ==
    { Inner(0, 0, 0),       \* keep-alive
      Inner(10, 4, 10),     \* shorter than an IPv4 header
      Inner(20, 4, 0),      \* version byte cannot be pulled
      Inner(60, 4, 60),     \* IPv4
      Inner(30, 6, 30),     \* IPv6 but shorter than its header
      Inner(80, 6, 80),     \* IPv6
      Inner(60, 5, 60) }    \* neither

\* ------------------------------------------------------------ collaborators
\* pskb_may_pull(skb, n): n bytes can be made contiguous at the head.
pskb_may_pull(pull, n) == n <= pull

\* messages.h: the type word selects the kind, the length must be the kind's.
message_determine_type(type, len) ==
    IF len < SIZEOF_MESSAGE_HEADER THEN MESSAGE_INVALID
    ELSE IF type = 1 /\ len = SIZEOF_INITIATION THEN MESSAGE_HANDSHAKE_INITIATION
    ELSE IF type = 2 /\ len = SIZEOF_RESPONSE THEN MESSAGE_HANDSHAKE_RESPONSE
    ELSE IF type = 3 /\ len = SIZEOF_COOKIE THEN MESSAGE_HANDSHAKE_COOKIE
    ELSE IF type = 4 /\ len >= MESSAGE_MINIMUM_LENGTH THEN MESSAGE_DATA
    ELSE MESSAGE_INVALID

\* socket.c: the source address of an IPv4 or IPv6 datagram, NULL (an error
\* return) for any other.
socket_addr_from_skb(skb) == IF skb.version \in {4, 6} THEN skb.src ELSE NULL

\* ---------------------------------------------------------- pure functions
rx_stats(peer, len) ==
    << Ev("add", NULL, "tstats.rx_bytes", len),
       Ev("add", NULL, "tstats.rx_packets", 1),
       Ev("add", peer, "peer.rx_bytes", len) >>

update_latest_addr(peer, skb) ==
    IF socket_addr_from_skb(skb) # NULL
    THEN << Ev("socket_set_peer_addr", peer, socket_addr_from_skb(skb), 0) >>
    ELSE << >>

\* [err, data_offset, data_len]; err 0 or -EINVAL (written -22).
skb_data_offset(skb) ==
    LET EINVAL == [err |-> -22, data_offset |-> 0, data_len |-> 0] IN
    IF skb.len < SIZEOF_IPHDR THEN EINVAL
    ELSE IF skb.version # 4 /\ skb.version # 6 THEN EINVAL
    ELSE IF skb.version = 6 /\ skb.len < SIZEOF_IPV6HDR THEN EINVAL
    ELSE IF skb.udp_off + SIZEOF_UDPHDR > skb.len THEN EINVAL
    ELSE IF skb.udp_len < SIZEOF_UDPHDR THEN EINVAL
    ELSE IF skb.udp_len > skb.len - skb.udp_off THEN EINVAL
    ELSE IF ~pskb_may_pull(skb.pull, skb.udp_off + SIZEOF_UDPHDR + SIZEOF_MESSAGE_HEADER)
         THEN EINVAL
    ELSE [err |-> 0, data_offset |-> skb.udp_off + SIZEOF_UDPHDR,
          data_len |-> skb.udp_len - SIZEOF_UDPHDR]

\* Mutant: the message being handled is counted as well.
under_load_of_counting_self(qlen) == qlen + 1 >= MAX_QUEUED_HANDSHAKES \div 2

\* Line 96.
under_load_of(qlen) == qlen >= MAX_QUEUED_HANDSHAKES \div 2

\* Mutant: a valid cookie is accepted whatever the load.
mac_decision_any_cookie(under_load, mac_state) ==
    IF mac_state = VALID_MAC_WITH_COOKIE
       \/ (~under_load /\ mac_state = VALID_MAC_BUT_NO_COOKIE)
    THEN "accept"
    ELSE IF under_load /\ mac_state = VALID_MAC_BUT_NO_COOKIE
    THEN "cookie"
    ELSE "drop"

\* Mutant: a message without a cookie is accepted under load as well.
mac_decision_no_challenge(under_load, mac_state) ==
    IF (under_load /\ mac_state \in {VALID_MAC_WITH_COOKIE, VALID_MAC_BUT_NO_COOKIE})
       \/ (~under_load /\ mac_state = VALID_MAC_BUT_NO_COOKIE)
    THEN "accept"
    ELSE "drop"

\* Lines 98-105: "accept", "cookie" (packet_needs_cookie) or "drop".
mac_decision(under_load, mac_state) ==
    IF (under_load /\ mac_state = VALID_MAC_WITH_COOKIE)
       \/ (~under_load /\ mac_state = VALID_MAC_BUT_NO_COOKIE)
    THEN "accept"
    ELSE IF under_load /\ mac_state = VALID_MAC_BUT_NO_COOKIE
    THEN "cookie"
    ELSE "drop"

\* Mutant: the bookkeeping does not count the message.
handshake_bookkeeping_uncounted(peer, len, skb) ==
    IF peer = NULL THEN << Ev("BUG", NULL, NULL, 0) >>
    ELSE << Ev("timers_any_authorized_packet_received", peer, NULL, 0) >>
         \o update_latest_addr(peer, skb)
         \o << Ev("peer_put", peer, NULL, 0) >>

\* Lines 147-152: BUG_ON(!peer), then the bookkeeping.
handshake_bookkeeping(peer, len, skb) ==
    IF peer = NULL THEN << Ev("BUG", NULL, NULL, 0) >>
    ELSE rx_stats(peer, len)
         \o << Ev("timers_any_authorized_packet_received", peer, NULL, 0) >>
         \o update_latest_addr(peer, skb)
         \o << Ev("peer_put", peer, NULL, 0) >>

\* Mutant: the response is not sent.
initiation_accepted_silent(peer, skb) == update_latest_addr(peer, skb)

\* Lines 119-121: an accepted initiation.
initiation_accepted(peer, skb) ==
    update_latest_addr(peer, skb)
    \o << Ev("packet_send_handshake_response", peer, NULL, 0) >>

\* Mutant: the result of begin_session is ignored.
response_accepted_unchecked(peer, began) ==
    << Ev("noise_handshake_begin_session", peer, IF began THEN "true" ELSE "false", 0),
       Ev("timers_ephemeral_key_created", peer, NULL, 0),
       Ev("timers_handshake_complete", peer, NULL, 0),
       Ev("packet_send_queue", peer, NULL, 0) >>

\* Lines 135-139: an accepted response; began is what begin_session returns.
response_accepted(peer, began) ==
    << Ev("noise_handshake_begin_session", peer, IF began THEN "true" ELSE "false", 0) >>
    \o (IF began
        THEN << Ev("timers_ephemeral_key_created", peer, NULL, 0),
                Ev("timers_handshake_complete", peer, NULL, 0),
                Ev("packet_send_queue", peer, NULL, 0) >>
        ELSE << >>)

\* The events of receive_handshake_packet(wg, data, len, skb) when the queue
\* holds qlen buffers, the cookie checker answers mac_state, the handshake
\* consumer returns consumed (a peer or NULL) and begin_session returns began.
receive_handshake_packet(skb, len, qlen, mac_state, consumed, began) ==
    LET message_type == message_determine_type(skb.type, len)
        under_load == under_load_of(qlen)
        validate == << Ev("cookie_validate_packet", mac_state,
                          IF under_load THEN "under_load" ELSE "no_load", 0) >>
        decision == mac_decision(under_load, mac_state)
        send_cookie == << Ev("packet_send_handshake_cookie", NULL, skb.src, 0) >>
    IN
    IF message_type = MESSAGE_HANDSHAKE_COOKIE
    THEN << Ev("cookie_message_consume", NULL, NULL, 0) >>
    ELSE IF decision = "drop" THEN validate
    ELSE IF message_type = MESSAGE_HANDSHAKE_INITIATION
    THEN IF decision = "cookie" THEN validate \o send_cookie
         ELSE validate
              \o << Ev("noise_handshake_consume_initiation", consumed, NULL, 0) >>
              \o (IF consumed = NULL THEN << >>
                  ELSE initiation_accepted(consumed, skb)
                       \o handshake_bookkeeping(consumed, len, skb))
    ELSE IF message_type = MESSAGE_HANDSHAKE_RESPONSE
    THEN IF decision = "cookie" THEN validate \o send_cookie
         ELSE validate
              \o << Ev("noise_handshake_consume_response", consumed, NULL, 0) >>
              \o (IF consumed = NULL THEN << >>
                  ELSE response_accepted(consumed, began)
                       \o handshake_bookkeeping(consumed, len, skb))
    ELSE validate \o << Ev("BUG", NULL, NULL, 0) >>

\* Mutant: the handler frees the skb of a message it rejects, and the loop
\* frees it again.
worker_iteration_double_free(skb, qlen, mac_state, consumed, began) ==
    LET r == skb_data_offset(skb)
        handled == IF r.err = 0
                   THEN receive_handshake_packet(skb, r.data_len, qlen, mac_state,
                                                 consumed, began)
                   ELSE << >>
    IN handled
       \o (IF CountEv(handled, "peer_put") = 0
           THEN << Ev("dev_kfree_skb", NULL, NULL, 0) >> ELSE << >>)
       \o << Ev("dev_kfree_skb", NULL, NULL, 0) >>

\* The events of one iteration of the worker's loop on a dequeued skb
\* (lines 163-165).
worker_iteration(skb, qlen, mac_state, consumed, began) ==
    LET r == skb_data_offset(skb)
        handled == IF r.err = 0
                   THEN receive_handshake_packet(skb, r.data_len, qlen, mac_state,
                                                 consumed, began)
                   ELSE << >>
    IN IF CountEv(handled, "BUG") > 0 THEN handled
       ELSE handled \o << Ev("dev_kfree_skb", NULL, NULL, 0) >>

\* Mutant: no packet is taken for a keep-alive.
is_keepalive_never(skb) == FALSE

\* Line 191: a packet with length 0 is a keep-alive.
is_keepalive(skb) == skb.len = 0

\* Mutant: a source the table maps to no peer passes.
routing_violation_unless_unrouted(routed, peer) == routed # peer /\ routed # NULL

\* Line 234: the routing table does not map the inner source to this peer.
routing_violation(routed, peer) == routed # peer

\* Mutant: an empty packet is taken for an IPv4 packet.
inner_packet_check_empty_ok(skb) ==
    IF skb.len = 0 THEN "ok"
    ELSE IF skb.len < SIZEOF_IPHDR THEN "length_error"
    ELSE IF ~pskb_may_pull(skb.pull, 1) THEN "length_error"
    ELSE IF skb.version = 4 THEN "ok"
    ELSE IF skb.version = 6
    THEN IF skb.len < SIZEOF_IPV6HDR THEN "length_error" ELSE "ok"
    ELSE "length_error"

\* Lines 191-227: the checks on the inner packet, in their order: "keepalive",
\* "length_error" or "ok".
inner_packet_check(skb) ==
    IF is_keepalive(skb) THEN "keepalive"
    ELSE IF skb.len < SIZEOF_IPHDR THEN "length_error"
    ELSE IF ~pskb_may_pull(skb.pull, 1) THEN "length_error"
    ELSE IF skb.version = 4 THEN "ok"
    ELSE IF skb.version = 6
    THEN IF skb.len < SIZEOF_IPV6HDR THEN "length_error" ELSE "ok"
    ELSE "length_error"

\* Mutant: the send queue is never flushed.
flush_on_new_key_never(peer, used_new_key) == << >>

\* Lines 187-188: the send queue is flushed when the packet used the new key.
flush_on_new_key(peer, used_new_key) ==
    IF used_new_key THEN << Ev("packet_send_queue", peer, NULL, 0) >> ELSE << >>

\* Mutant: a length error is not counted.
rx_length_error_silent == << >>

\* Lines 197-198 (and 204-205, 216-217, 223-224): a length error is counted.
rx_length_error ==
    << Ev("add", NULL, "stats.rx_errors", 1), Ev("add", NULL, "stats.rx_length_errors", 1) >>

\* Mutant: the tail leaves the peer's address alone.
continue_processing_keep_addr(peer, addr) ==
    << Ev("timers_any_authorized_packet_received", peer, NULL, 0),
       Ev("peer_put", peer, NULL, 0) >>

\* Lines 257-259: the common tail after continue_processing.
continue_processing(peer, addr) ==
    << Ev("timers_any_authorized_packet_received", peer, NULL, 0),
       Ev("socket_set_peer_addr", peer, addr, 0),
       Ev("peer_put", peer, NULL, 0) >>

\* The events of receive_data_packet(skb, peer, addr, used_new_key, err): skb
\* holds the decrypted inner packet, routed is what routing_table_lookup_src
\* returns and netif what netif_rx returns.
receive_data_packet(skb, peer, addr, used_new_key, err, routed, netif) ==
    LET free == << Ev("dev_kfree_skb", NULL, NULL, 0) >>
        length_error == rx_length_error
        tail == continue_processing(peer, addr)
        flush == flush_on_new_key(peer, used_new_key)
    IN
    IF err < 0 \/ peer = NULL \/ addr = NULL THEN free
    ELSE IF inner_packet_check(skb) = "keepalive" THEN flush \o free \o tail
    ELSE IF inner_packet_check(skb) = "length_error"
         THEN flush \o length_error \o free \o tail
    ELSE flush
         \o << Ev("timers_data_received", peer, NULL, 0),
               Ev("routing_table_lookup_src", routed, NULL, 0),
               Ev("peer_put", routed, NULL, 0) >>
         \o (IF routing_violation(routed, peer)
             THEN << Ev("add", NULL, "stats.rx_errors", 1),
                     Ev("add", NULL, "stats.rx_frame_errors", 1) >>
                  \o free
             ELSE << Ev("netif_rx", NULL, netif, 0) >>
                  \o (IF netif = NET_RX_SUCCESS THEN rx_stats(peer, skb.len)
                      ELSE << Ev("add", NULL, "stats.rx_dropped", 1) >>))
         \o tail

\* ------------------------------------------------------------------- queue
skb_queue_len(q) == Len(q)
skb_queue_tail(q, b) == Append(q, b)
\* Mutant: the list is popped at its tail.
skb_dequeue_tail(q) ==
    IF q = << >> THEN [skb |-> 0, rest |-> q]
    ELSE [skb |-> q[Len(q)], rest |-> SubSeq(q, 1, Len(q) - 1)]

\* [skb, rest]: the head of the list and what is left (0 for an empty list).
skb_dequeue(q) ==
    IF q = << >> THEN [skb |-> 0, rest |-> q] ELSE [skb |-> Head(q), rest |-> Tail(q)]

\* Mutant: queue_work has no effect.
queue_work_lost(pending) == pending

\* queue_work on a work item: pending afterwards, whether or not it was.
queue_work(pending) == TRUE

\* skb_linearize: afterwards every byte can be pulled.
skb_linearize(skb) == [skb EXCEPT !.pull = skb.len]

\* Mutant: a data message is queued for the worker like a handshake message.
packet_receive_dispatch_queue_data(skb, qlen) ==
    LET r == skb_data_offset(skb)
        type == message_determine_type(skb.type, r.data_len)
    IN IF r.err < 0 THEN "err"
       ELSE IF type \in {MESSAGE_HANDSHAKE_INITIATION, MESSAGE_HANDSHAKE_RESPONSE,
                         MESSAGE_HANDSHAKE_COOKIE, MESSAGE_DATA}
       THEN IF qlen > MAX_QUEUED_HANDSHAKES THEN "err" ELSE "handshake"
       ELSE "err"

\* Mutant: a handshake message is admitted whatever the queue's length.
packet_receive_dispatch_no_limit(skb, qlen) ==
    LET r == skb_data_offset(skb)
        type == message_determine_type(skb.type, r.data_len)
    IN IF r.err < 0 THEN "err"
       ELSE IF type \in {MESSAGE_HANDSHAKE_INITIATION, MESSAGE_HANDSHAKE_RESPONSE,
                         MESSAGE_HANDSHAKE_COOKIE}
       THEN "handshake"
       ELSE IF type = MESSAGE_DATA THEN "data"
       ELSE "err"

\* Lines 272-296 up to the branch taken: "err", "handshake" or "data".
packet_receive_dispatch(skb, qlen) ==
    LET r == skb_data_offset(skb)
        type == message_determine_type(skb.type, r.data_len)
    IN IF r.err < 0 THEN "err"
       ELSE IF type \in {MESSAGE_HANDSHAKE_INITIATION, MESSAGE_HANDSHAKE_RESPONSE,
                         MESSAGE_HANDSHAKE_COOKIE}
       THEN IF qlen > MAX_QUEUED_HANDSHAKES THEN "err" ELSE "handshake"
       ELSE IF type = MESSAGE_DATA THEN "data"
       ELSE "err"

\* ------------------------------------------------------------------- state
VARIABLES
    pc,             \* per datagram: where its packet_receive call stands
    own,            \* per datagram: who owns the buffer
    skb,            \* per datagram: the buffer's contents while it is owned
    queue,          \* wg->incoming_handshakes
    work_pending,   \* wg->incoming_handshakes_work is queued on the workqueue
    running,        \* packet_process_queued_handshake_packets is executing
    cur,            \* the skb the worker dequeued and has not yet freed, or 0
    dequeued_len,   \* history: skb_queue_len just before cur was dequeued, or 0
    num_processed,  \* the worker's local counter
    cnt,            \* dev->stats and the per-cpu tstats, summed
    peer_rx_bytes,  \* peer->rx_bytes
    endpoint,       \* each peer's last-known address
    refs,           \* per peer: references the receive path holds
    freed,          \* per datagram: dev_kfree_skb calls on it
    delivered,      \* per datagram: netif_rx calls on it
    panic,          \* BUG() was reached
    enqueued,       \* history: datagrams in the order of skb_queue_tail
    processed,      \* history: datagrams in the order the worker handled them
    last            \* the most recent handler run: its arguments and events

vars == << pc, own, skb, queue, work_pending, running, cur, dequeued_len,
           num_processed, cnt,
           peer_rx_bytes, endpoint, refs, freed, delivered, panic, enqueued,
           processed, last >>

Counters == {"stats.rx_errors", "stats.rx_length_errors", "stats.rx_frame_errors",
             "stats.rx_dropped", "tstats.rx_bytes", "tstats.rx_packets"}

\* A run of packet_receive or of the worker's loop body on datagram b.
Last(op, b, s, qlen, mac_state, consumed, began, ev) ==
    [op |-> op, b |-> b, skb |-> s, qlen |-> qlen, mac_state |-> mac_state,
     consumed |-> consumed, began |-> began,
     peer |-> NULL, addr |-> NULL, used_new_key |-> FALSE, err |-> 0,
     routed |-> NULL, netif |-> NULL, ev |-> ev]

\* A run of receive_data_packet on datagram b with the inputs i.
LastData(b, i, ev) ==
    [op |-> "receive_data_packet", b |-> b, skb |-> i.inner, qlen |-> 0,
     mac_state |-> NULL, consumed |-> NULL, began |-> FALSE,
     peer |-> i.peer, addr |-> i.addr, used_new_key |-> i.used_new_key, err |-> i.err,
     routed |-> i.routed, netif |-> i.netif, ev |-> ev]

Init ==
    /\ pc = [b \in AllBufs |-> "new"]
    /\ own = [b \in AllBufs |-> "none"]
    /\ skb = [b \in AllBufs |-> NoSkb]
    /\ queue = << >>
    /\ work_pending = FALSE
    /\ running = FALSE
    /\ cur = 0
    /\ dequeued_len = 0
    /\ num_processed = 0
    /\ cnt = [c \in Counters |-> 0]
    /\ peer_rx_bytes = [p \in Peers |-> 0]
    /\ endpoint = [p \in Peers |-> "a1"]
    /\ refs = [p \in Peers |-> 0]
    /\ freed = [b \in AllBufs |-> 0]
    /\ delivered = [b \in AllBufs |-> 0]
    /\ panic = FALSE
    /\ enqueued = << >>
    /\ processed = << >>
    /\ last = Last("none", 0, NoSkb, 0, NULL, NULL, FALSE, << >>)

\* References a run takes on peer p: the peer a consumer or the routing lookup
\* returns, and the one the decryption pipeline hands to its callback.
Acquired(ev, p) ==
    CountEvP(ev, "noise_handshake_consume_initiation", p)
    + CountEvP(ev, "noise_handshake_consume_response", p)
    + CountEvP(ev, "routing_table_lookup_src", p)
    + CountEvP(ev, "callback_peer", p)

\* What a run's events add up to: the sum added to each counter, each peer's
\* new address (NULL: not set), the references taken less those released,
\* the frees and hand-offs of the skb, and whether BUG() was reached.
Effect(ev) ==
    [ev |-> ev,
     add |-> [c \in Counters |-> SumAdd(ev, NULL, c)],
     peer_add |-> [p \in Peers |-> SumAdd(ev, p, "peer.rx_bytes")],
     addr |-> [p \in Peers |-> LastAddr(ev, p, NULL)],
     held |-> [p \in Peers |-> Acquired(ev, p) - CountEvP(ev, "peer_put", p)],
     freed |-> CountEv(ev, "dev_kfree_skb"),
     delivered |-> CountEv(ev, "netif_rx"),
     bug |-> CountEv(ev, "BUG") > 0]

\* The effect e of a run on the device, the peers and buffer b.
Apply(e, b) ==
    /\ cnt' = [c \in Counters |-> cnt[c] + e.add[c]]
    /\ peer_rx_bytes' = [p \in Peers |-> peer_rx_bytes[p] + e.peer_add[p]]
    /\ endpoint' = [p \in Peers |-> IF e.addr[p] = NULL THEN endpoint[p] ELSE e.addr[p]]
    /\ refs' = [p \in Peers |-> refs[p] + e.held[p]]
    /\ freed' = [freed EXCEPT ![b] = @ + e.freed]
    /\ delivered' = [delivered EXCEPT ![b] = @ + e.delivered]
    /\ panic' = (panic \/ e.bug)
    /\ own' = [own EXCEPT ![b] = IF e.freed + e.delivered > 0 THEN "gone" ELSE @]
    /\ skb' = [skb EXCEPT ![b] = IF e.freed + e.delivered > 0 THEN NoSkb ELSE @]

\* ----------------------------------------------------------- packet_receive
\* What packet_receive does with the skb on each of its branches: the free at
\* err, or the hand-over to the decryption pipeline.
packet_receive_events(branch) ==
    IF branch = "err" THEN << Ev("dev_kfree_skb", NULL, NULL, 0) >>
    ELSE IF branch = "data" THEN << Ev("packet_consume_data", NULL, NULL, 0) >>
    ELSE << >>

\* Lines 272-281, 290-301: the frame check, the classification and, for a
\* handshake message, the test of the queue length.  Datagrams arrive in the
\* order of their numbers; fs is the set of frames that may arrive.
ReceiveEntry(b, fs) ==
    /\ ~panic
    /\ pc[b] = "new"
    /\ \A c \in AllBufs : c < b => pc[c] # "new"
    /\ \E f \in fs :
         LET branch == packet_receive_dispatch(f, skb_queue_len(queue))
         IN /\ pc' = [pc EXCEPT ![b] = IF branch = "handshake" THEN "checked" ELSE "ret"]
            /\ own' = [own EXCEPT ![b] = CASE branch = "err" -> "gone"
                                           [] branch = "data" -> "pipeline"
                                           [] OTHER -> "rx"]
            /\ skb' = [skb EXCEPT ![b] = IF branch = "err" THEN NoSkb ELSE f]
            /\ freed' = [freed EXCEPT ![b] = IF branch = "err" THEN @ + 1 ELSE @]
            /\ last' = Last("packet_receive", b, f, skb_queue_len(queue), NULL, NULL,
                            FALSE, packet_receive_events(branch))
    /\ UNCHANGED << queue, work_pending, running, cur, dequeued_len, num_processed, cnt,
                    peer_rx_bytes, endpoint, refs, delivered, panic, enqueued, processed >>

\* Lines 282-286: skb_linearize, which can fail for a paged skb, then
\* skb_queue_tail.
ReceiveEnqueue(b) ==
    /\ ~panic
    /\ pc[b] = "checked"
    /\ \E linearized \in BOOLEAN :
         /\ linearized \/ skb[b].pull < skb[b].len
         /\ pc' = [pc EXCEPT ![b] = IF linearized THEN "enqueued" ELSE "ret"]
         /\ own' = [own EXCEPT ![b] = IF linearized THEN "queue" ELSE "gone"]
         /\ skb' = [skb EXCEPT ![b] = IF linearized THEN skb_linearize(@) ELSE NoSkb]
         /\ freed' = [freed EXCEPT ![b] = IF linearized THEN @ ELSE @ + 1]
         /\ queue' = IF linearized THEN skb_queue_tail(queue, b) ELSE queue
         /\ enqueued' = IF linearized THEN Append(enqueued, b) ELSE enqueued
         /\ last' = Last("packet_receive", b, skb[b], skb_queue_len(queue), NULL,
                         NULL, FALSE,
                         IF linearized THEN << Ev("skb_queue_tail", NULL, NULL, 0) >>
                         ELSE packet_receive_events("err"))
    /\ UNCHANGED << work_pending, running, cur, dequeued_len, num_processed, cnt,
                    peer_rx_bytes, endpoint, refs, delivered, panic, processed >>

\* Line 288: queue_work, then return.
ReceiveSignal(b) ==
    /\ ~panic
    /\ pc[b] = "enqueued"
    /\ pc' = [pc EXCEPT ![b] = "ret"]
    /\ work_pending' = queue_work(work_pending)
    /\ UNCHANGED << own, skb, queue, running, cur, dequeued_len, num_processed, cnt,
                    peer_rx_bytes, endpoint, refs, freed, delivered, panic, enqueued,
                    processed, last >>

\* ------------------------------------------------------------------ worker
\* The workqueue starts a pending work item unless it is already executing.
WorkerStart ==
    /\ ~panic
    /\ work_pending
    /\ ~running
    /\ work_pending' = FALSE
    /\ running' = TRUE
    /\ num_processed' = 0
    /\ UNCHANGED << pc, own, skb, queue, cur, dequeued_len, cnt, peer_rx_bytes, endpoint,
                    refs, freed, delivered, panic, enqueued, processed, last >>

\* Line 162: skb_dequeue; the loop and the function end on an empty queue.
WorkerDequeue ==
    /\ ~panic
    /\ running
    /\ cur = 0
    /\ LET d == skb_dequeue(queue)
       IN /\ cur' = d.skb
          /\ dequeued_len' = IF d.skb # 0 THEN skb_queue_len(queue) ELSE 0
          /\ queue' = d.rest
          /\ running' = (d.skb # 0)
          /\ own' = IF d.skb # 0 THEN [own EXCEPT ![d.skb] = "worker"] ELSE own
    /\ UNCHANGED << pc, skb, work_pending, num_processed, cnt, peer_rx_bytes, endpoint,
                    refs, freed, delivered, panic, enqueued, processed, last >>

\* What the collaborators of receive_handshake_packet can answer.
HandshakeInputs ==
    [mac_state : MacStates, consumed : PeerOrNull, began : BOOLEAN]

\* Mutant: the run stops one buffer later.
burst_reached_late(n) == n = MAX_BURST_HANDSHAKES + 1

\* Line 166: the test on the counter after its increment.
burst_reached(n) == n = MAX_BURST_HANDSHAKES

\* Lines 163-169: one iteration on the dequeued skb; ins is the set of
\* answers the collaborators may give.
WorkerProcess(ins) ==
    /\ ~panic
    /\ running
    /\ cur # 0
    /\ \E i \in ins :
       \E ev \in { worker_iteration(skb[cur], skb_queue_len(queue), i.mac_state,
                                    i.consumed, i.began) } :
       \E e \in { Effect(ev) } :
         LET burst == burst_reached(num_processed + 1)
         IN /\ last' = Last("worker", cur, skb[cur], skb_queue_len(queue), i.mac_state,
                            i.consumed, i.began, e.ev)
            /\ Apply(e, cur)
            /\ processed' = Append(processed, cur)
            /\ num_processed' = num_processed + 1
            /\ work_pending' = IF burst THEN queue_work(work_pending) ELSE work_pending
            /\ running' = ~burst
    /\ cur' = 0
    /\ dequeued_len' = 0
    /\ UNCHANGED << pc, queue, enqueued >>

\* ---------------------------------------------------------------- data path
\* What the decryption pipeline can pass to its callback, with the results of
\* the routing lookup and of netif_rx.  An input the callback does not read
\* on its path takes one value only.
DataInputs ==
    { i \in [inner : Inners, peer : PeerOrNull, addr : AddrOrNull,
             used_new_key : BOOLEAN, err : {0, -1}, routed : PeerOrNull,
             netif : {NET_RX_SUCCESS, NET_RX_DROP}] :
        LET early == i.err < 0 \/ i.peer = NULL \/ i.addr = NULL
            looked_up == ~early /\ i.inner.len >= SIZEOF_IPHDR /\ i.inner.pull >= 1
                         /\ (i.inner.version = 4
                             \/ (i.inner.version = 6 /\ i.inner.len >= SIZEOF_IPV6HDR))
        IN /\ early => i.inner = Inner(0, 0, 0)
           /\ ~looked_up => i.routed = NULL
           /\ ~(looked_up /\ i.routed = i.peer) => i.netif = NET_RX_DROP }

\* The decryption pipeline completes datagram b: the skb now holds the inner
\* packet, and the callback runs with the pipeline's arguments.
DataCallback(b) ==
    /\ ~panic
    /\ own[b] = "pipeline"
    /\ \E i \in DataInputs :
         \* the first event is the reference the pipeline holds on the peer
         LET e == Effect(<< Ev("callback_peer", i.peer, NULL, 0) >>
                         \o receive_data_packet(i.inner, i.peer, i.addr, i.used_new_key,
                                                i.err, i.routed, i.netif))
         IN /\ last' = LastData(b, i, e.ev)
            /\ Apply(e, b)
    /\ UNCHANGED << pc, queue, work_pending, running, cur, dequeued_len, num_processed,
                    enqueued, processed >>

\* ---------------------------------------------------------- specifications
\* The whole receive path on NumBufs datagrams of any kind.
Next ==
    \/ \E b \in Bufs : ReceiveEntry(b, Frames)
    \/ \E b \in Bufs : ReceiveEnqueue(b)
    \/ \E b \in Bufs : ReceiveSignal(b)
    \/ WorkerStart
    \/ WorkerDequeue
    \/ WorkerProcess(HandshakeInputs)
    \/ \E b \in Bufs : DataCallback(b)

Spec == Init /\ [][Next]_vars

\* The admission queue and its worker under a flood of NumQueueBufs handshake
\* datagrams that no handshake consumer accepts.  The handlers neither read
\* nor write the queue and the work item apart from the queue's length.
QueueFrames == { f \in Frames : f.type = 1 /\ skb_data_offset(f).err = 0
                                /\ message_determine_type(f.type, f.udp_len - SIZEOF_UDPHDR)
                                   # MESSAGE_INVALID }
QueueInputs == { i \in HandshakeInputs : i.consumed = NULL /\ ~i.began }

NextQueue ==
    \/ \E b \in QueueBufs : ReceiveEntry(b, QueueFrames)
    \/ \E b \in QueueBufs : ReceiveEnqueue(b)
    \/ \E b \in QueueBufs : ReceiveSignal(b)
    \/ WorkerStart
    \/ WorkerDequeue
    \/ WorkerProcess(QueueInputs)

SpecQueue == Init /\ [][NextQueue]_vars

\* The entry point under NumQueueBufs datagrams of which some are malformed or
\* of no known kind and the others are handshake initiations, which fill the
\* queue; the cookie checker rejects what the worker dequeues.
DropFrames ==
    QueueFrames \cup { f \in Frames : f.udp_len = 7 \/ f.type = 5 }
DropInputs == { i \in QueueInputs : i.mac_state = INVALID_MAC }

NextDrop ==
    \/ \E b \in QueueBufs : ReceiveEntry(b, DropFrames)
    \/ \E b \in QueueBufs : ReceiveEnqueue(b)
    \/ \E b \in QueueBufs : ReceiveSignal(b)
    \/ WorkerStart
    \/ WorkerDequeue
    \/ WorkerProcess(DropInputs)

SpecDrop == Init /\ [][NextDrop]_vars

\* The enqueuers and the worker on NumQueueBufs linear handshake initiations
\* that the cookie checker rejects, under fair scheduling: the workqueue runs
\* a pending work item, and the worker's function and a packet_receive call
\* run on to their return.
WakeFrames == { f \in QueueFrames : f.pull = f.len }

NextWake ==
    \/ \E b \in QueueBufs : ReceiveEntry(b, WakeFrames)
    \/ \E b \in QueueBufs : ReceiveEnqueue(b)
    \/ \E b \in QueueBufs : ReceiveSignal(b)
    \/ WorkerStart
    \/ WorkerDequeue
    \/ WorkerProcess(DropInputs)

SpecWake ==
    /\ Init /\ [][NextWake]_vars
    /\ WF_vars(WorkerStart)
    /\ WF_vars(WorkerDequeue)
    /\ WF_vars(WorkerProcess(DropInputs))
    /\ \A b \in QueueBufs : WF_vars(ReceiveEnqueue(b)) /\ WF_vars(ReceiveSignal(b))

\* ------------------------------------------------------------- properties
\* The kind of the message an outer datagram carries.
MsgType(s) ==
    LET r == skb_data_offset(s)
    IN IF r.err # 0 THEN MESSAGE_INVALID ELSE message_determine_type(s.type, r.data_len)

\* The run l is the worker's loop body on a handshake message of kind t.
WorkerRunOn(l, t) == l.op = "worker" /\ MsgType(l.skb) = t

\* The run l is a completion callback with err not negative, a peer and an
\* address.
CallbackRun(l) ==
    l.op = "receive_data_packet" /\ l.err >= 0 /\ l.peer # NULL /\ l.addr # NULL

\* The inner packet is an IPv4 or IPv6 packet that has a source address.
HasInnerSource(s) ==
    /\ s.len >= SIZEOF_IPHDR
    /\ s.pull >= 1
    /\ (s.version = 4 \/ (s.version = 6 /\ s.len >= SIZEOF_IPV6HDR))

\* The step is the worker's loop body (lines 163-169) on some skb.
WorkerStep == cur # 0 /\ cur' = 0

\* The step is the completion callback of datagram b.
CallbackStep(b) == own[b] = "pipeline" /\ own'[b] # "pipeline"

\* No call of the given callees in a run's events.
NoCalls(ev, fs) == \A f \in fs : CountEv(ev, f) = 0

HandshakeConsumers ==
    {"noise_handshake_consume_initiation", "noise_handshake_consume_response"}
Timers ==
    {"timers_any_authorized_packet_received", "timers_data_received",
     "timers_ephemeral_key_created", "timers_handshake_complete"}

\* C1: the admission queue never holds more than MAX_QUEUED_HANDSHAKES
\* buffers.
C1_QueueWithinCapacity == skb_queue_len(queue) <= MAX_QUEUED_HANDSHAKES

\* C2: every buffer has at most one disposal (a free or a hand-off to the
\* network stack); a buffer nobody holds any more has exactly one; a buffer
\* that has one is held by nobody; and the worker's loop body leaves the skb
\* it dequeued freed once and not handed on, whatever the handler did.
C2_OneDisposition ==
    /\ \A b \in AllBufs :
         /\ freed[b] + delivered[b] <= 1
         /\ (own[b] = "gone") <=> (freed[b] + delivered[b] = 1)
         /\ own[b] = "rx" => pc[b] = "checked"
         /\ own[b] = "queue" => \E i \in 1..Len(queue) : queue[i] = b
         /\ own[b] = "worker" => cur = b
         /\ own[b] = "none" => pc[b] = "new"
    /\ last.op = "worker" =>
         /\ CountEv(last.ev, "dev_kfree_skb") = 1
         /\ freed[last.b] = 1
         /\ delivered[last.b] = 0

C2_Witness ==
    /\ last.op = "worker"
    /\ CountEv(last.ev, "peer_put") = 1
    /\ freed[last.b] = 1
    /\ \E b \in Bufs : delivered[b] = 1 /\ freed[b] = 0 /\ own[b] = "gone"

\* C3: between handler runs the receive path holds no peer reference: every
\* reference a run acquired or was handed has been released, once.
C3_PeerRefsBalanced == \A p \in Peers : refs[p] = 0

\* C4: a completion callback whose inner packet has a source address that
\* the routing table does not map to the packet's peer frees the buffer,
\* does not hand it to the network stack, adds one to rx_errors and to
\* rx_frame_errors, and changes no other counter.
C4_RoutingViolationDropped ==
    [][\A b \in Bufs :
         (/\ CallbackStep(b)
          /\ CallbackRun(last')
          /\ HasInnerSource(last'.skb)
          /\ last'.routed # last'.peer)
         => /\ freed'[b] = 1
            /\ delivered'[b] = 0
            /\ CountEv(last'.ev, "netif_rx") = 0
            /\ cnt' = [cnt EXCEPT !["stats.rx_errors"] = @ + 1,
                                  !["stats.rx_frame_errors"] = @ + 1]
            /\ peer_rx_bytes' = peer_rx_bytes]_vars

C4_Witness ==
    /\ CallbackRun(last)
    /\ HasInnerSource(last.skb)
    /\ last.routed \in Peers
    /\ last.routed # last.peer
    /\ cnt["stats.rx_frame_errors"] = 1
    /\ freed[last.b] = 1

\* C5: the worker's loop body on an initiation or a response, under load and
\* with a MAC1 but no cookie, sends one cookie reply to the datagram's source
\* and nothing else: no consumer, no response, no session, no timer, no
\* counter, no address.
C5_CookieReplyOnly ==
    [][(/\ WorkerStep
        /\ MsgType(last'.skb) \in {MESSAGE_HANDSHAKE_INITIATION, MESSAGE_HANDSHAKE_RESPONSE}
        /\ last'.qlen >= MAX_QUEUED_HANDSHAKES \div 2
        /\ last'.mac_state = VALID_MAC_BUT_NO_COOKIE)
       => /\ CountEv(last'.ev, "packet_send_handshake_cookie") = 1
          /\ \A i \in 1..Len(last'.ev) :
               last'.ev[i].f = "packet_send_handshake_cookie"
               => last'.ev[i].a = last'.skb.src
          /\ NoCalls(last'.ev, HandshakeConsumers \cup Timers
                               \cup {"packet_send_handshake_response",
                                     "noise_handshake_begin_session",
                                     "packet_send_queue", "socket_set_peer_addr",
                                     "add"})
          /\ cnt' = cnt
          /\ peer_rx_bytes' = peer_rx_bytes
          /\ endpoint' = endpoint
          /\ refs' = refs]_vars

C5_Witness ==
    /\ WorkerRunOn(last, MESSAGE_HANDSHAKE_RESPONSE)
    /\ last.qlen >= MAX_QUEUED_HANDSHAKES \div 2
    /\ last.mac_state = VALID_MAC_BUT_NO_COOKIE
    /\ CountEv(last.ev, "packet_send_handshake_cookie") = 1

\* What a run of the worker's loop body did with the message: "accept" (a
\* handshake consumer was called), "cookie" (a cookie reply was sent) or
\* "drop" (neither, and nothing was emitted).
Action(l) ==
    IF \E f \in HandshakeConsumers : CountEv(l.ev, f) = 1 THEN "accept"
    ELSE IF CountEv(l.ev, "packet_send_handshake_cookie") = 1 THEN "cookie"
    ELSE IF NoCalls(l.ev, {"packet_send_handshake_response", "packet_send_queue",
                           "packet_send_handshake_cookie"})
    THEN "drop"
    ELSE "other"

HandshakeRun(l) ==
    WorkerRunOn(l, MESSAGE_HANDSHAKE_INITIATION) \/ WorkerRunOn(l, MESSAGE_HANDSHAKE_RESPONSE)

UnderLoad(l) == l.qlen >= MAX_QUEUED_HANDSHAKES \div 2

C7_InitiationResponse ==
    [][(WorkerStep /\ WorkerRunOn(last', MESSAGE_HANDSHAKE_INITIATION))
       => /\ (/\ ~UnderLoad(last')
              /\ last'.mac_state = VALID_MAC_BUT_NO_COOKIE
              /\ last'.consumed # NULL)
             => /\ CountEv(last'.ev, "packet_send_handshake_response") = 1
                /\ CountEvP(last'.ev, "packet_send_handshake_response", last'.consumed) = 1
          /\ (/\ CountEv(last'.ev, "noise_handshake_consume_initiation") = 1
              /\ last'.consumed = NULL)
             => /\ CountEv(last'.ev, "packet_send_handshake_response") = 0
                /\ cnt' = cnt
                /\ peer_rx_bytes' = peer_rx_bytes
                /\ endpoint' = endpoint]_vars

C7_Witness ==
    /\ WorkerRunOn(last, MESSAGE_HANDSHAKE_INITIATION)
    /\ ~UnderLoad(last)
    /\ last.mac_state = VALID_MAC_BUT_NO_COOKIE
    /\ last.consumed # NULL
    /\ CountEvP(last.ev, "packet_send_handshake_response", last.consumed) = 1

\* C8: a run on a response whose consumer returns a peer and whose
\* begin_session succeeds flushes that peer's send queue once and notifies
\* ephemeral_key_created and handshake_complete once each; a run on a
\* response whose consumer returns no peer, or whose begin_session fails,
\* does none of the three.
C8_ResponseFlush ==
    WorkerRunOn(last, MESSAGE_HANDSHAKE_RESPONSE) =>
        LET sessions == {"packet_send_queue", "timers_ephemeral_key_created",
                         "timers_handshake_complete"}
            consumer_called == CountEv(last.ev, "noise_handshake_consume_response") = 1
        IN /\ (consumer_called /\ last.consumed # NULL /\ last.began)
              => \A f \in sessions :
                   /\ CountEv(last.ev, f) = 1
                   /\ CountEvP(last.ev, f, last.consumed) = 1
           /\ ~(consumer_called /\ last.consumed # NULL /\ last.began)
              => NoCalls(last.ev, sessions)

C8_Witness ==
    /\ WorkerRunOn(last, MESSAGE_HANDSHAKE_RESPONSE)
    /\ last.consumed # NULL
    /\ last.began
    /\ CountEvP(last.ev, "packet_send_queue", last.consumed) = 1

\* C9: the worker handles the datagrams in the order of their skb_queue_tail,
\* and at most one dequeued datagram is being handled at any time.
C9_FifoOrder ==
    /\ Len(processed) <= Len(enqueued)
    /\ \A i \in 1..Len(processed) : processed[i] = enqueued[i]
    /\ Len(enqueued) - Len(queue) - Len(processed) = (IF cur # 0 THEN 1 ELSE 0)
    /\ cur # 0 => running

\* three datagrams handled, over a re-signal of the worker, that were queued
\* in another order than they arrived in
C9_Witness ==
    /\ Len(processed) >= 3
    /\ processed[1] > processed[2]
    /\ Len(queue) > 0

\* C10: a completion callback on a keep-alive (length 0, err not negative,
\* peer and address present) does not hand the buffer to the network stack,
\* changes no counter, frees the buffer and calls
\* timers_any_authorized_packet_received once.
C10_KeepaliveSilent ==
    [][\A b \in Bufs :
         (CallbackStep(b) /\ CallbackRun(last') /\ last'.skb.len = 0)
         => /\ delivered'[b] = 0
            /\ CountEv(last'.ev, "netif_rx") = 0
            /\ cnt' = cnt
            /\ peer_rx_bytes' = peer_rx_bytes
            /\ freed'[b] = 1
            /\ CountEv(last'.ev, "timers_any_authorized_packet_received") = 1
            /\ CountEvP(last'.ev, "timers_any_authorized_packet_received", last'.peer) = 1]_vars

C10_Witness ==
    /\ CallbackRun(last)
    /\ last.skb.len = 0
    /\ freed[last.b] = 1
    /\ CountEv(last.ev, "timers_any_authorized_packet_received") = 1

\* C11 as stated: a completion callback on a keep-alive calls
\* timers_data_received for the peer.
C11_KeepaliveDataReceived ==
    (CallbackRun(last) /\ last.skb.len = 0)
    => CountEvP(last.ev, "timers_data_received", last.peer) = 1

\* C11 amended: a completion callback on a keep-alive does not call
\* timers_data_received (the jump at line 193 passes over line 229); of the
\* timers it calls timers_any_authorized_packet_received only, once, for the
\* peer.
C11_KeepaliveNoDataReceived ==
    (CallbackRun(last) /\ last.skb.len = 0)
    => /\ CountEv(last.ev, "timers_data_received") = 0
       /\ CountEvP(last.ev, "timers_any_authorized_packet_received", last.peer) = 1
       /\ NoCalls(last.ev, Timers \ {"timers_any_authorized_packet_received"})

C11_Witness ==
    /\ CallbackRun(last)
    /\ last.skb.len = 0
    /\ last.used_new_key
    /\ CountEv(last.ev, "timers_data_received") = 0
    /\ endpoint[last.peer] = last.addr

\* The run l called a handshake consumer, which returned a peer.
YieldedPeer(l) ==
    /\ \E f \in HandshakeConsumers : CountEv(l.ev, f) = 1
    /\ l.consumed # NULL

\* The length of the message an outer datagram carries.
PayloadLen(s) == skb_data_offset(s).data_len

\* C12: the worker's loop body on a handshake message whose consumer returns
\* a peer (for a response, whether or not begin_session succeeds) adds 1 to
\* rx_packets and the payload length (148 for an initiation) to rx_bytes and
\* to the peer's byte counter, calls timers_any_authorized_packet_received
\* once, for that peer, and sets the peer's address to the datagram's source;
\* the loop body on any other message (dropped, answered with a cookie,
\* rejected by its consumer, or a cookie reply) changes no counter and no
\* address and calls no timer.
C12_HandshakeBookkeeping ==
    [][WorkerStep =>
         IF YieldedPeer(last')
         THEN /\ cnt' = [cnt EXCEPT !["tstats.rx_packets"] = @ + 1,
                                    !["tstats.rx_bytes"] = @ + PayloadLen(last'.skb)]
              /\ MsgType(last'.skb) = MESSAGE_HANDSHAKE_INITIATION
                 => cnt'["tstats.rx_bytes"] = cnt["tstats.rx_bytes"] + 148
              /\ peer_rx_bytes' = [peer_rx_bytes EXCEPT ![last'.consumed] =
                                                         @ + PayloadLen(last'.skb)]
              /\ CountEv(last'.ev, "timers_any_authorized_packet_received") = 1
              /\ CountEvP(last'.ev, "timers_any_authorized_packet_received",
                          last'.consumed) = 1
              /\ endpoint' = [endpoint EXCEPT ![last'.consumed] = last'.skb.src]
         ELSE /\ cnt' = cnt
              /\ peer_rx_bytes' = peer_rx_bytes
              /\ endpoint' = endpoint
              /\ NoCalls(last'.ev, Timers)]_vars

\* a response whose begin_session failed was counted after an initiation
C12_Witness ==
    /\ WorkerRunOn(last, MESSAGE_HANDSHAKE_RESPONSE)
    /\ YieldedPeer(last)
    /\ ~last.began
    /\ cnt["tstats.rx_packets"] = 2
    /\ cnt["tstats.rx_bytes"] = SIZEOF_INITIATION + SIZEOF_RESPONSE
    /\ endpoint[last.consumed] = "a2"

\* The step is the first part of packet_receive on datagram b (lines 272-281
\* and 290-301).
EntryStep(b) == pc[b] = "new" /\ pc'[b] # "new"

\* The step is the second part of packet_receive on datagram b (lines
\* 282-286) and skb_linearize failed in it.
LinearizeFailedStep(b) == pc[b] = "checked" /\ pc'[b] = "ret"

\* packet_receive has to drop the frame s when the queue holds qlen buffers.
MustDrop(s, qlen) ==
    \/ skb_data_offset(s).err < 0
    \/ MsgType(s) = MESSAGE_INVALID
    \/ /\ MsgType(s) \in {MESSAGE_HANDSHAKE_INITIATION, MESSAGE_HANDSHAKE_RESPONSE,
                          MESSAGE_HANDSHAKE_COOKIE}
       /\ qlen > MAX_QUEUED_HANDSHAKES

\* C13: a packet_receive call on a malformed frame, on a message of no known
\* kind, on a handshake message that finds more than MAX_QUEUED_HANDSHAKES
\* buffers queued, or whose skb_linearize fails, frees the buffer once and
\* returns: the queue is unchanged, the worker is not signalled, the
\* decryption pipeline is not invoked and no counter changes.
C13_DropIsSilent ==
    [][\A b \in AllBufs :
         ((EntryStep(b) /\ MustDrop(last'.skb, last'.qlen)) \/ LinearizeFailedStep(b))
         => /\ pc'[b] = "ret"
            /\ own'[b] = "gone"
            /\ freed'[b] = 1
            /\ delivered'[b] = 0
            /\ last'.ev = << Ev("dev_kfree_skb", NULL, NULL, 0) >>
            /\ queue' = queue
            /\ enqueued' = enqueued
            /\ work_pending' = work_pending
            /\ running' = running
            /\ cnt' = cnt
            /\ peer_rx_bytes' = peer_rx_bytes
            /\ endpoint' = endpoint]_vars

\* a well-formed initiation found the queue over its capacity and was
\* dropped, with the queue and the counters as they were
C13_Witness ==
    /\ last.op = "packet_receive"
    /\ MsgType(last.skb) = MESSAGE_HANDSHAKE_INITIATION
    /\ last.qlen > MAX_QUEUED_HANDSHAKES
    /\ freed[last.b] = 1
    /\ own[last.b] = "gone"
    /\ Len(queue) = MAX_QUEUED_HANDSHAKES + 1
    /\ cnt = [c \in Counters |-> 0]

\* The step drops a datagram in packet_receive: the frame is invalid, the
\* message is of no known kind, the queue is over its capacity or
\* skb_linearize fails.
EntryDropStep ==
    \E b \in AllBufs :
        \/ EntryStep(b) /\ pc'[b] = "ret" /\ own'[b] = "gone"
        \/ LinearizeFailedStep(b)

\* The step is the worker's loop body dropping an initiation or a response:
\* the MAC is invalid or the consumer rejects the message.
HandshakeDropStep ==
    /\ WorkerStep
    /\ HandshakeRun(last')
    /\ \/ Action(last') = "drop"
       \/ Action(last') = "accept" /\ last'.consumed = NULL

\* The step is a completion callback of a failed decryption (err negative,
\* or no peer or address).
DecryptionFailedStep ==
    \E b \in AllBufs : CallbackStep(b) /\ ~CallbackRun(last')

\* The step is a completion callback dropping an authenticated inner packet:
\* a length error, a routing violation or a rejection by the network stack.
InnerDropStep ==
    \E b \in AllBufs :
        /\ CallbackStep(b)
        /\ CallbackRun(last')
        /\ last'.skb.len # 0
        /\ \/ ~HasInnerSource(last'.skb)
           \/ last'.routed # last'.peer
           \/ last'.netif = NET_RX_DROP

DropStep == EntryDropStep \/ HandshakeDropStep \/ DecryptionFailedStep \/ InnerDropStep

WakeupPending ==
    (~running /\ ~work_pending)
    => (queue = << >> \/ \E b \in AllBufs : pc[b] = "enqueued")

\* C15: no wakeup is lost: whenever the worker is neither running nor
\* pending, the queue is empty or an enqueuer is about to signal; and, under
\* fair scheduling, every datagram appended to the queue is eventually
\* dequeued, handled and freed.
C15_NoLostWakeup ==
    /\ []WakeupPending
    /\ \A b \in QueueBufs :
         (own[b] = "queue") ~> (freed[b] = 1 /\ \E i \in 1..Len(processed) : processed[i] = b)

\* every datagram was appended (not in the order of arrival), handled over
\* several runs of the worker and freed; the worker is idle on an empty queue
C15_Witness ==
    /\ Len(processed) = NumQueueBufs
    /\ \A b \in QueueBufs : freed[b] = 1
    /\ queue = << >>
    /\ ~running
    /\ ~work_pending
    /\ \E i \in 1..(Len(processed) - 1) : processed[i] > processed[i + 1]

\* The buffers the current (or the last) run of the worker has dequeued.
DequeuedInRun == num_processed + (IF cur # 0 THEN 1 ELSE 0)

\* The step is the worker's skb_dequeue returning a buffer.
DequeueStep == cur = 0 /\ cur' # 0

\* C16: a run of the worker dequeues at most MAX_BURST_HANDSHAKES buffers;
\* the loop body that handles the MAX_BURST_HANDSHAKES-th buffer of a run
\* calls queue_work and returns, so the item is pending and the run is over,
\* whether or not buffers remain in the queue; and no buffer is dequeued by a
\* run that has reached the limit.
C16_BurstLimit ==
    /\ [](DequeuedInRun <= MAX_BURST_HANDSHAKES)
    /\ [][/\ (WorkerStep /\ num_processed' = MAX_BURST_HANDSHAKES)
              => (work_pending' /\ ~running')
          /\ DequeueStep => (running /\ num_processed < MAX_BURST_HANDSHAKES)]_vars

\* a run has stopped at the burst limit with buffers left in the queue and
\* the work item pending again
C16_Witness ==
    /\ num_processed = MAX_BURST_HANDSHAKES
    /\ ~running
    /\ work_pending
    /\ cur = 0
    /\ Len(queue) = 2
    /\ Len(processed) = MAX_BURST_HANDSHAKES

\* The under_load argument of the run's cookie_validate_packet call.
UnderLoadUsed(l) ==
    \E i \in 1..Len(l.ev) :
        l.ev[i].f = "cookie_validate_packet" /\ l.ev[i].a = "under_load"

\* C17 as stated: the under_load value used for an initiation or a response
\* is true exactly when the queue's length before the message was dequeued
\* (the message counted) is at least MAX_QUEUED_HANDSHAKES / 2.
C17_UnderLoadBeforeDequeue ==
    [][(WorkerStep /\ HandshakeRun(last'))
       => (UnderLoadUsed(last') <=> dequeued_len >= MAX_QUEUED_HANDSHAKES \div 2)]_vars

\* C17 amended: the under_load value used for an initiation or a response is
\* true exactly when the queue's length at the time the handler runs, after
\* the message was dequeued (the message not counted, later arrivals
\* counted), is at least MAX_QUEUED_HANDSHAKES / 2.
C17_UnderLoadAfterDequeue ==
    [][(WorkerStep /\ HandshakeRun(last'))
       => /\ CountEv(last'.ev, "cookie_validate_packet") = 1
          /\ UnderLoadUsed(last') <=> skb_queue_len(queue) >= MAX_QUEUED_HANDSHAKES \div 2
          /\ last'.qlen = skb_queue_len(queue)
          /\ \A i \in 1..Len(queue) : queue[i] # cur]_vars

\* the only datagram ever queued (a queue of length MAX_QUEUED_HANDSHAKES / 2
\* before its dequeue) was handled with under_load false and, having a MAC
\* but no cookie, accepted
C17_Witness ==
    /\ HandshakeRun(last)
    /\ enqueued = << last.b >>
    /\ MAX_QUEUED_HANDSHAKES \div 2 = 1
    /\ ~UnderLoadUsed(last)
    /\ last.mac_state = VALID_MAC_BUT_NO_COOKIE
    /\ Action(last) = "accept"

\* C18: a completion callback with err not negative, a peer and an address
\* calls timers_any_authorized_packet_received once, for the peer, and sets
\* the peer's address to the address it was given, whatever the inner packet
\* is; a completion callback with err negative or without a peer or an
\* address calls no timer, sets no address and changes no counter.
C18_CallbackTail ==
    [][\A b \in Bufs :
         CallbackStep(b) =>
           IF CallbackRun(last')
           THEN /\ CountEv(last'.ev, "timers_any_authorized_packet_received") = 1
                /\ CountEvP(last'.ev, "timers_any_authorized_packet_received",
                            last'.peer) = 1
                /\ CountEv(last'.ev, "socket_set_peer_addr") = 1
                /\ endpoint' = [endpoint EXCEPT ![last'.peer] = last'.addr]
           ELSE /\ NoCalls(last'.ev, Timers \cup {"socket_set_peer_addr"})
                /\ endpoint' = endpoint
                /\ cnt' = cnt
                /\ peer_rx_bytes' = peer_rx_bytes]_vars

\* the callback of an inner packet that is neither IPv4 nor IPv6 has set the
\* peer's address and called the timer
C18_Witness ==
    /\ CallbackRun(last)
    /\ last.skb.version = 5
    /\ cnt["stats.rx_length_errors"] = 1
    /\ last.addr = "a2"
    /\ endpoint[last.peer] = "a2"
    /\ CountEv(last.ev, "timers_any_authorized_packet_received") = 1

\* The calls of a run that follow the hand-over of the callback's arguments.
Calls(l) == Tail(l.ev)

\* C19: a completion callback with used_new_key true, err not negative, a
\* peer and an address flushes the peer's send queue once, as its first
\* call, before any check of the inner packet and whatever the inner packet
\* is; a completion callback with used_new_key false does not flush.
C19_FlushOnNewKey ==
    last.op = "receive_data_packet" =>
        /\ (CallbackRun(last) /\ last.used_new_key)
           => /\ CountEv(last.ev, "packet_send_queue") = 1
              /\ Head(Calls(last)) = Ev("packet_send_queue", last.peer, NULL, 0)
        /\ ~last.used_new_key => CountEv(last.ev, "packet_send_queue") = 0

\* the send queue was flushed by a callback whose inner packet violated the
\* routing table
C19_Witness ==
    /\ CallbackRun(last)
    /\ last.used_new_key
    /\ HasInnerSource(last.skb)
    /\ last.routed # last.peer
    /\ CountEvP(last.ev, "packet_send_queue", last.peer) = 1
    /\ cnt["stats.rx_frame_errors"] = 1

HandshakeKinds ==
    {MESSAGE_HANDSHAKE_INITIATION, MESSAGE_HANDSHAKE_RESPONSE, MESSAGE_HANDSHAKE_COOKIE}

\* C20: BUG() and BUG_ON(!peer) are never reached: every buffer in the queue
\* and the buffer the worker holds carry an initiation, a response or a
\* cookie reply, and no run of the worker's loop body reaches either
\* assertion.
C20_NoAbort ==
    /\ ~panic
    /\ \A i \in 1..Len(queue) : MsgType(skb[queue[i]]) \in HandshakeKinds
    /\ cur # 0 => MsgType(skb[cur]) \in HandshakeKinds
    /\ last.op = "worker" => /\ MsgType(last.skb) \in HandshakeKinds
                             /\ CountEv(last.ev, "BUG") = 0

\* the bookkeeping behind BUG_ON(!peer) was reached with a peer, after
\* another datagram had passed through the queue
C20_Witness ==
    /\ ~panic
    /\ WorkerRunOn(last, MESSAGE_HANDSHAKE_INITIATION)
    /\ YieldedPeer(last)
    /\ CountEvP(last.ev, "peer_put", last.consumed) = 1
    /\ Len(processed) = 2
====
